---- MODULE Spec2Model ----
(***************************************************************************)
(* Model of check-error.js: the command-line block and evaluateP5Sketch,   *)
(* an async function that launches a headless browser, registers the       *)
(* pageerror and console listeners, navigates to a local file, waits a     *)
(* fixed delay, reports the buffered errors and closes the browser.        *)
(*                                                                         *)
(* One action per synchronous run of code between two suspension points    *)
(* (await), plus one action per listener callback.  The browser engine is  *)
(* the environment: each awaited call resolves or rejects, and the page    *)
(* emits events while an await is pending.                                 *)
(***************************************************************************)
EXTENDS Integers, Sequences, FiniteSets, TLC

(* ------------------------------ bounds -------------------------------- *)

\* number of events the page emits in one run
MaxEvents == 2

(* ------------------------- program constants -------------------------- *)

NavTimeoutMs == 30000
ObserveMs == 5000

Undefined == "undefined"

\* the text the console listener filters on, as a sequence of words
BenignMarker == <<"Failed", "to", "load", "resource">>

(* ------------------------------ inputs -------------------------------- *)

AbsolutePaths == {"/srv/sketch.html"}
RelativePaths == {"sketch.html"}
Paths == AbsolutePaths \cup RelativePaths
Cwd == "/work"

\* process.argv[2]: absent, the empty string, or a path
Argvs == {Undefined, ""} \cup Paths

\* the files that exist on disk
FileSystems == {{}, Paths}

\* console texts, as sequences of words
Texts == { <<"Failed", "to", "load", "resource">>,
           <<"GET", "Failed", "to", "load", "resource", "404">>,
           <<"Failed", "to", "load">>,
           <<"p5", "says", "oops">> }

ConsoleTypes == {"error", "warning", "log", "info"}

PageErrs == { [message |-> "ReferenceError: foo is not defined", stack |-> "at setup"],
              [message |-> "TypeError: x is not a function", stack |-> "at draw"] }

LaunchErrs == { [message |-> "Failed to launch the browser process", stack |-> "at launch"] }
NewPageErrs == { [message |-> "Target closed", stack |-> "at newPage"] }
NavErrs == { [message |-> "Navigation timeout of 30000 ms exceeded", stack |-> "at goto"],
             [message |-> "net::ERR_FILE_NOT_FOUND", stack |-> "at goto"] }
CloseErrs == { [message |-> "Protocol error: Connection closed", stack |-> "at close"] }

\* what the page can emit: an uncaught exception or a console message
Events == { [chan |-> "pageerror", err |-> e] : e \in PageErrs }
          \cup { [chan |-> "console", type |-> t, text |-> x] : t \in ConsoleTypes, x \in Texts }

(* ------------------------------- state -------------------------------- *)

VARIABLES
    argv,           \* process.argv[2]
    fs,             \* existing files
    pc,             \* where the program is suspended
    browser,        \* let browser
    page,           \* const page
    listeners,      \* the page's registered listeners
    errors,         \* const errors = []
    consoleErrors,  \* const consoleErrors = []
    completion,     \* the completion recorded by try/catch while finally runs
    settlement,     \* the promise evaluateP5Sketch returned
    calls,          \* history: how often each call was made, and launches that resolved
    failures,       \* history: the rejections of awaited calls, in order
    gotoOpts,       \* the url and options page.goto was called with
    timer,          \* the armed setTimeout delay, 0 when none
    emitted,        \* history: every event the page emitted, in order
    drainedAt,      \* history: <<Len(emitted)>> when the buffers were read
    stdout,
    stderr,
    exit            \* <<>> while running, <<code>> after process.exit(code)

vars == <<argv, fs, pc, browser, page, listeners, errors, consoleErrors,
          completion, settlement, calls, failures, gotoOpts, timer, emitted,
          drainedAt, stdout, stderr, exit>>

(* ------------------------------ helpers ------------------------------- *)

\* String.prototype.includes over sequences of words
Includes(text, part) ==
    \E i \in 1..(Len(text) - Len(part) + 1) : SubSeq(text, i, i + Len(part) - 1) = part

\* path.resolve: an absolute path stays, a relative one is joined to the cwd
Resolve(p) == IF p \in AbsolutePaths THEN p ELSE Cwd \o "/" \o p

FileUrl(p) == "file://" \o Resolve(p)

\* !htmlFilePath
ArgMissing(a) == a = Undefined \/ a = ""

\* mutant: the existence check never fires
FileMissing_never(files, p) == FALSE

\* !fs.existsSync(htmlFilePath)
FileMissing(files, p) == p \notin files

NotFoundResult(p) == [success |-> FALSE, message |-> "HTML file not found: " \o p]

\* mutant: the console listener is not registered before navigation
RegisteredBeforeGoto_pageOnly == {"pageerror"}

\* the listeners registered between newPage and goto
RegisteredBeforeGoto == {"pageerror", "console"}

\* mutant: an entry equal to one already buffered is dropped
Push_dedupe(buf, entry) ==
    IF \E i \in 1..Len(buf) : buf[i] = entry THEN buf ELSE Append(buf, entry)

\* Array.prototype.push
Push(buf, entry) == Append(buf, entry)

PageErrorEntry(err) == [type |-> "pageerror", message |-> err.message, stack |-> err.stack]

ConsoleErrorEntry(text) == [type |-> "console.error", message |-> text]

\* mutant: the filter compares the whole text instead of searching it
IsBenign_wholeText(text) == text = BenignMarker

\* text.includes('Failed to load resource')
IsBenign(text) == Includes(text, BenignMarker)

\* mutant: warnings are buffered like errors
ConsoleBuffers_warnings(type, text) == type \in {"error", "warning"} /\ ~IsBenign(text)

\* the console listener buffers the message
ConsoleBuffers(type, text) == type = "error" /\ ~IsBenign(text)

\* mutant: the console errors are spread first
AllErrors_consoleFirst(errs, cons) == cons \o errs

\* mutant: the console errors are left out of the report
AllErrors_pageOnly(errs, cons) == errs

\* const allErrors = [...errors, ...consoleErrors]
AllErrors(errs, cons) == errs \o cons

\* mutant: a single error still counts as a clean run
Report_offByOne(all) ==
    IF Len(all) > 1
    THEN [success |-> FALSE, message |-> "Runtime errors detected.", errors |-> all]
    ELSE [success |-> TRUE, message |-> "No runtime errors detected."]

\* mutant: the clean result carries the (empty) error list too
Report_alwaysErrors(all) ==
    IF Len(all) > 0
    THEN [success |-> FALSE, message |-> "Runtime errors detected.", errors |-> all]
    ELSE [success |-> TRUE, message |-> "No runtime errors detected.", errors |-> all]

\* 7. Report findings
Report(all) ==
    IF Len(all) > 0
    THEN [success |-> FALSE, message |-> "Runtime errors detected.", errors |-> all]
    ELSE [success |-> TRUE, message |-> "No runtime errors detected."]

\* mutant: the entry does not carry the failure's own message
CatchResult_generic(error) ==
    [success |-> FALSE,
     message |-> "Puppeteer or navigation error: " \o error.message,
     errors |-> <<[type |-> "puppeteer_error", message |-> "unknown error", stack |-> error.stack]>>]

\* mutant: the failure entry is added to the errors buffered so far
CatchResult_withBuffered(error) ==
    [success |-> FALSE,
     message |-> "Puppeteer or navigation error: " \o error.message,
     errors |-> errors \o consoleErrors
                \o <<[type |-> "puppeteer_error", message |-> error.message,
                       stack |-> error.stack]>>]

\* the catch block's return value
CatchResult(error) ==
    [success |-> FALSE,
     message |-> "Puppeteer or navigation error: " \o error.message,
     errors |-> <<[type |-> "puppeteer_error", message |-> error.message, stack |-> error.stack]>>]

\* mutant: close is called without the guard
FinallyCloses_unguarded(b) == TRUE

\* mutant: the guard tests the page instead of the browser
FinallyCloses_ifPage(b) == page # Undefined

\* finally: if (browser)
FinallyCloses(b) == b # Undefined

\* mutant: the then-handler exits 0 whatever the result
ExitCodeFor_zero(result) == 0

\* the exit code the then-handler chooses
ExitCodeFor(result) == IF ~result.success THEN 1 ELSE 0

\* mutant: the then-handler prints the banner but not the result
ResultLines_bannerOnly(result) == << <<"\n--- Final Evaluation Result ---">> >>

\* what the then-handler prints: the banner, then JSON.stringify(result, null, 2)
ResultLines(result) == << <<"\n--- Final Evaluation Result ---">>, <<"JSON", result>> >>

Pending == [state |-> "pending"]
Fulfilled(v) == [state |-> "fulfilled", value |-> v]
Rejected(e) == [state |-> "rejected", reason |-> e]

NoCompletion == [kind |-> "none"]
ReturnOf(v) == [kind |-> "return", value |-> v]

(* ------------------------------- Init --------------------------------- *)

Init ==
    /\ argv \in Argvs
    /\ fs \in FileSystems
    /\ pc = "main"
    /\ browser = Undefined
    /\ page = Undefined
    /\ listeners = {}
    /\ errors = <<>>
    /\ consoleErrors = <<>>
    /\ completion = NoCompletion
    /\ settlement = Pending
    /\ calls = [evaluate |-> 0, launch |-> 0, launched |-> 0, newPage |-> 0,
                goto |-> 0, close |-> 0]
    /\ failures = <<>>
    /\ gotoOpts = <<>>
    /\ timer = 0
    /\ emitted = <<>>
    /\ drainedAt = <<>>
    /\ stdout = <<>>
    /\ stderr = <<>>
    /\ exit = <<>>

(* ------------------------------ actions ------------------------------- *)

\* the try statement completes with c: finally runs, closing the browser
\* when there is one, else the function settles at once
Finally(c, out, err) ==
    IF FinallyCloses(browser)
    THEN /\ pc' = "close"
         /\ completion' = c
         /\ calls' = [calls EXCEPT !.close = @ + 1]
         /\ stdout' = out
         /\ stderr' = err
         /\ UNCHANGED settlement
    ELSE /\ pc' = "settled"
         /\ completion' = NoCompletion
         /\ settlement' = Fulfilled(c.value)
         /\ stdout' = out
         /\ stderr' = err
         /\ UNCHANGED calls

\* mutant: a first launch failure is answered by launching again
Catch_retry(at, error) ==
    /\ failures' = Append(failures, [at |-> at, error |-> error])
    /\ IF at = "launch" /\ failures = <<>>
       THEN /\ pc' = "launch"
            /\ calls' = [calls EXCEPT !.launch = @ + 1]
            /\ UNCHANGED <<completion, settlement, stdout, stderr>>
       ELSE Finally(ReturnOf(CatchResult(error)), stdout,
                    Append(stderr, <<"Puppeteer or navigation error:", error.message>>))

\* the catch block, then finally
Catch(at, error) ==
    /\ failures' = Append(failures, [at |-> at, error |-> error])
    /\ Finally(ReturnOf(CatchResult(error)), stdout,
               Append(stderr, <<"Puppeteer or navigation error:", error.message>>))

\* the command-line block with a missing argument: usage, exit 1
MainUsage ==
    /\ pc = "main"
    /\ ArgMissing(argv)
    /\ pc' = "exited"
    /\ stderr' = Append(stderr, <<"Usage: node index.js <path/to/your/p5_sketch.html>">>)
    /\ exit' = <<1>>
    /\ UNCHANGED <<argv, fs, failures, browser, page, listeners, errors, consoleErrors, completion,
                   settlement, calls, gotoOpts, timer, emitted, drainedAt, stdout>>

\* the command-line block calls evaluateP5Sketch; the file does not exist
EvaluateNotFound ==
    /\ pc = "main"
    /\ ~ArgMissing(argv)
    /\ FileMissing(fs, argv)
    /\ pc' = "settled"
    /\ calls' = [calls EXCEPT !.evaluate = @ + 1]
    /\ stderr' = Append(stderr, <<"Error: HTML file not found at ", argv>>)
    /\ settlement' = Fulfilled(NotFoundResult(argv))
    /\ UNCHANGED <<argv, fs, failures, browser, page, listeners, errors, consoleErrors, completion,
                   gotoOpts, timer, emitted, drainedAt, stdout, exit>>

\* the command-line block calls evaluateP5Sketch; the file exists, launch is awaited
EvaluateLaunch ==
    /\ pc = "main"
    /\ ~ArgMissing(argv)
    /\ ~FileMissing(fs, argv)
    /\ pc' = "launch"
    /\ calls' = [calls EXCEPT !.evaluate = @ + 1, !.launch = @ + 1]
    /\ stdout' = Append(stdout, <<"Evaluating P5.js sketch from: ", FileUrl(argv)>>)
    /\ UNCHANGED <<argv, fs, failures, browser, page, listeners, errors, consoleErrors, completion,
                   settlement, gotoOpts, timer, emitted, drainedAt, stderr, exit>>

\* puppeteer.launch resolves: browser is assigned, newPage is awaited
LaunchResolved ==
    /\ pc = "launch"
    /\ pc' = "newPage"
    /\ browser' = "Browser"
    /\ calls' = [calls EXCEPT !.launched = @ + 1, !.newPage = @ + 1]
    /\ UNCHANGED <<argv, fs, failures, page, listeners, errors, consoleErrors, completion, settlement,
                   gotoOpts, timer, emitted, drainedAt, stdout, stderr, exit>>

\* puppeteer.launch rejects: catch, finally
LaunchRejected ==
    /\ pc = "launch"
    /\ \E e \in LaunchErrs : Catch("launch", e)
    /\ UNCHANGED <<argv, fs, browser, page, listeners, errors, consoleErrors,
                   gotoOpts, timer, emitted, drainedAt, exit>>

\* browser.newPage resolves: both listeners are registered, goto is awaited
NewPageResolved ==
    /\ pc = "newPage"
    /\ pc' = "goto"
    /\ page' = "Page"
    /\ listeners' = RegisteredBeforeGoto
    /\ calls' = [calls EXCEPT !.goto = @ + 1]
    /\ gotoOpts' = <<FileUrl(argv), "domcontentloaded", NavTimeoutMs>>
    /\ UNCHANGED <<argv, fs, failures, browser, errors, consoleErrors, completion, settlement,
                   timer, emitted, drainedAt, stdout, stderr, exit>>

\* browser.newPage rejects: catch, finally
NewPageRejected ==
    /\ pc = "newPage"
    /\ \E e \in NewPageErrs : Catch("newPage", e)
    /\ UNCHANGED <<argv, fs, browser, page, listeners, errors, consoleErrors,
                   gotoOpts, timer, emitted, drainedAt, exit>>

\* mutant: the delay promise is not awaited, the buffers are read at once
GotoResolved_noAwait ==
    /\ pc = "goto"
    /\ timer' = ObserveMs
    /\ drainedAt' = <<Len(emitted)>>
    /\ Finally(ReturnOf(Report(AllErrors(errors, consoleErrors))), stdout, stderr)
    /\ UNCHANGED <<argv, fs, failures, browser, page, listeners, errors, consoleErrors,
                   gotoOpts, emitted, exit>>

\* page.goto resolves: the observation delay is armed
GotoResolved ==
    /\ pc = "goto"
    /\ pc' = "delay"
    /\ timer' = ObserveMs
    /\ UNCHANGED <<argv, fs, failures, browser, page, listeners, errors, consoleErrors, completion,
                   settlement, calls, gotoOpts, emitted, drainedAt, stdout, stderr, exit>>

\* page.goto rejects (timeout or any other failure): catch, finally
GotoRejected ==
    /\ pc = "goto"
    /\ \E e \in NavErrs : Catch("goto", e)
    /\ UNCHANGED <<argv, fs, browser, page, listeners, errors, consoleErrors,
                   gotoOpts, timer, emitted, drainedAt, exit>>

\* the delay elapses: the buffers are read, the result is built, finally
DelayElapsed ==
    /\ pc = "delay"
    /\ timer' = 0
    /\ drainedAt' = <<Len(emitted)>>
    /\ LET all == AllErrors(errors, consoleErrors)
           line == IF Len(all) > 0
                   THEN <<"Evaluation complete: Found ", Len(all), " runtime errors.">>
                   ELSE <<"Evaluation complete: No runtime errors detected.">>
       IN Finally(ReturnOf(Report(all)), Append(stdout, line), stderr)
    /\ UNCHANGED <<argv, fs, failures, browser, page, listeners, errors, consoleErrors,
                   gotoOpts, emitted, exit>>

\* mutant: the result is built from the buffers as they are when close resolves
CloseResolved_liveBuffers ==
    /\ pc = "close"
    /\ pc' = "settled"
    /\ settlement' = Fulfilled(IF drainedAt # <<>>
                               THEN Report(AllErrors(errors, consoleErrors))
                               ELSE completion.value)
    /\ completion' = NoCompletion
    /\ UNCHANGED <<argv, fs, failures, browser, page, listeners, errors, consoleErrors, calls,
                   gotoOpts, timer, emitted, drainedAt, stdout, stderr, exit>>

\* browser.close resolves: the function returns the recorded result
CloseResolved ==
    /\ pc = "close"
    /\ pc' = "settled"
    /\ settlement' = Fulfilled(completion.value)
    /\ completion' = NoCompletion
    /\ UNCHANGED <<argv, fs, failures, browser, page, listeners, errors, consoleErrors, calls,
                   gotoOpts, timer, emitted, drainedAt, stdout, stderr, exit>>

\* mutant: the close failure is swallowed and the recorded result returned
CloseRejected_swallowed ==
    /\ pc = "close"
    /\ pc' = "settled"
    /\ \E e \in CloseErrs :
         /\ settlement' = Fulfilled(completion.value)
         /\ failures' = Append(failures, [at |-> "close", error |-> e])
    /\ completion' = NoCompletion
    /\ UNCHANGED <<argv, fs, browser, page, listeners, errors, consoleErrors, calls,
                   gotoOpts, timer, emitted, drainedAt, stdout, stderr, exit>>

\* browser.close rejects: the throw from finally replaces the recorded result
CloseRejected ==
    /\ pc = "close"
    /\ pc' = "settled"
    /\ \E e \in CloseErrs :
         /\ settlement' = Rejected(e)
         /\ failures' = Append(failures, [at |-> "close", error |-> e])
    /\ completion' = NoCompletion
    /\ UNCHANGED <<argv, fs, browser, page, listeners, errors, consoleErrors, calls,
                   gotoOpts, timer, emitted, drainedAt, stdout, stderr, exit>>

\* the page emits an uncaught exception while the program is suspended
PageErrorEvent ==
    /\ pc \in {"goto", "delay", "close"}
    /\ page # Undefined
    /\ Len(emitted) < MaxEvents
    /\ \E e \in PageErrs :
         /\ emitted' = Append(emitted, [chan |-> "pageerror", err |-> e])
         /\ IF "pageerror" \in listeners
            THEN /\ stderr' = Append(stderr, <<"Page error (uncaught exception):", e.message>>)
                 /\ errors' = Push(errors, PageErrorEntry(e))
            ELSE UNCHANGED <<stderr, errors>>
    /\ UNCHANGED <<argv, fs, failures, pc, browser, page, listeners, consoleErrors, completion,
                   settlement, calls, gotoOpts, timer, drainedAt, stdout, exit>>

\* the page emits a console message while the program is suspended
ConsoleEvent ==
    /\ pc \in {"goto", "delay", "close"}
    /\ page # Undefined
    /\ Len(emitted) < MaxEvents
    /\ \E t \in ConsoleTypes, x \in Texts :
         /\ emitted' = Append(emitted, [chan |-> "console", type |-> t, text |-> x])
         /\ IF "console" \notin listeners
            THEN UNCHANGED <<stderr, consoleErrors>>
            ELSE IF ConsoleBuffers(t, x)
            THEN /\ stderr' = Append(stderr, <<"Console error: ">> \o x \o <<"\n">>)
                 /\ consoleErrors' = Push(consoleErrors, ConsoleErrorEntry(x))
            ELSE IF t = "warning"
            THEN /\ stderr' = Append(stderr, <<"Console warning: ">> \o x \o <<"\n">>)
                 /\ UNCHANGED consoleErrors
            ELSE IF t = "log"
            THEN /\ stderr' = Append(stderr, <<"Console log: ">> \o x \o <<"\n">>)
                 /\ UNCHANGED consoleErrors
            ELSE UNCHANGED <<stderr, consoleErrors>>
    /\ UNCHANGED <<argv, fs, failures, pc, browser, page, listeners, errors, completion,
                   settlement, calls, gotoOpts, timer, drainedAt, stdout, exit>>

\* .then: print the result as JSON, exit with its code
ThenHandler ==
    /\ pc = "settled"
    /\ settlement.state = "fulfilled"
    /\ pc' = "exited"
    /\ stdout' = stdout \o ResultLines(settlement.value)
    /\ exit' = <<ExitCodeFor(settlement.value)>>
    /\ UNCHANGED <<argv, fs, failures, browser, page, listeners, errors, consoleErrors, completion,
                   settlement, calls, gotoOpts, timer, emitted, drainedAt, stderr>>

\* .catch: last-resort message, exit 1
CatchHandler ==
    /\ pc = "settled"
    /\ settlement.state = "rejected"
    /\ pc' = "exited"
    /\ stderr' = Append(stderr, <<"Unhandled error during evaluation:", settlement.reason.message>>)
    /\ exit' = <<1>>
    /\ UNCHANGED <<argv, fs, failures, browser, page, listeners, errors, consoleErrors, completion,
                   settlement, calls, gotoOpts, timer, emitted, drainedAt, stdout>>

Next ==
    \/ MainUsage
    \/ EvaluateNotFound
    \/ EvaluateLaunch
    \/ LaunchResolved
    \/ LaunchRejected
    \/ NewPageResolved
    \/ NewPageRejected
    \/ GotoResolved
    \/ GotoRejected
    \/ DelayElapsed
    \/ CloseResolved
    \/ CloseRejected
    \/ PageErrorEvent
    \/ ConsoleEvent
    \/ ThenHandler
    \/ CatchHandler

Spec == Init /\ [][Next]_vars

(* --------------------------- shared notions --------------------------- *)

\* evaluateP5Sketch has ended: its promise is fulfilled or rejected
Settled == settlement.state # "pending"

\* evaluateP5Sketch returned a result
Returned == settlement.state = "fulfilled"

\* the awaited call `at` was rejected
Failed(at) == \E i \in 1..Len(failures) : failures[i].at = at

\* launch, page creation or navigation failed
SessionFailed == Failed("launch") \/ Failed("newPage") \/ Failed("goto")

\* the events emitted before the buffers were read
Observed == IF drainedAt = <<>> THEN <<>> ELSE SubSeq(emitted, 1, drainedAt[1])

\* text contains the four words "Failed to load resource" in a row
HasMarker(text) ==
    \E i \in 1..(Len(text) - 3) :
        /\ text[i] = "Failed" /\ text[i + 1] = "to"
        /\ text[i + 2] = "load" /\ text[i + 3] = "resource"

\* the event is an error-severity console message carrying the marker
BenignEvent(ev) == ev.chan = "console" /\ ev.type = "error" /\ HasMarker(ev.text)

\* the event is an ObservedError: a page error or an unfiltered console error
IsObservedError(ev) ==
    \/ ev.chan = "pageerror"
    \/ ev.chan = "console" /\ ev.type = "error" /\ ~HasMarker(ev.text)

(* ------------------------------- C1 ----------------------------------- *)

\* C1 as stated: whichever state the runner reaches, by the time the
\* evaluation ends the browser was opened exactly once and closed exactly once.
C1_OpenedAndClosedOnce == Settled => calls.launch = 1 /\ calls.close = 1

\* C1, amended: the browser is launched at most once (never when the file is
\* missing, once otherwise), close is never called more often than a launch
\* succeeded, and when the evaluation ends close has been called exactly once
\* if the launch succeeded and not at all otherwise.
C1_ClosedOncePerOpenedSession ==
    /\ calls.close <= calls.launched
    /\ calls.launched <= calls.launch
    /\ calls.launch <= 1
    /\ Settled => /\ calls.launch = (IF argv \in fs THEN 1 ELSE 0)
                  /\ calls.close = calls.launched

\* an evaluation whose navigation failed has ended, opened once and closed once
C1_Witness ==
    /\ Settled
    /\ Failed("goto")
    /\ calls.launch = 1
    /\ calls.launched = 1
    /\ calls.close = 1

(* ------------------------------- C2 ----------------------------------- *)

\* C2: whenever the launch succeeded, the step that settles evaluateP5Sketch
\* is the completion of the one browser.close() call, in every continuation;
\* so the browser is closed before the evaluation settles.
C2_ClosedBeforeSettle ==
    [][ (settlement.state = "pending" /\ settlement'.state # "pending" /\ calls.launched = 1)
        => (pc = "close" /\ calls.close = 1 /\ calls'.close = 1) ]_vars

\* page creation failed after a successful launch, and the browser was closed
C2_Witness ==
    /\ Settled
    /\ Failed("newPage")
    /\ calls.launched = 1
    /\ page = Undefined
    /\ calls.close = 1

(* ------------------------------- C3 ----------------------------------- *)

\* C3: for a path that does not exist, evaluateP5Sketch returns success=false
\* with message "HTML file not found: <path>", and no browser is launched, no
\* listener attached, no navigation attempted and no close performed.
C3_MissingFile ==
    (calls.evaluate = 1 /\ argv \notin fs) =>
        /\ settlement = [state |-> "fulfilled",
                         value |-> [success |-> FALSE,
                                    message |-> "HTML file not found: " \o argv]]
        /\ calls.launch = 0
        /\ calls.newPage = 0
        /\ calls.goto = 0
        /\ calls.close = 0
        /\ browser = Undefined
        /\ listeners = {}
        /\ emitted = <<>>

\* evaluateP5Sketch was called with a path that is not on disk
C3_Witness == calls.evaluate = 1 /\ argv \notin fs /\ pc = "settled"

(* ------------------------------- C4 ----------------------------------- *)

\* C4 as stated: in every returned result, success is true iff zero
\* ObservedError entries were collected during the evaluation and no launch,
\* page-creation or navigation failure occurred.
C4_SuccessIffNothingCollected ==
    Returned =>
        (settlement.value.success <=>
            (Len(errors) + Len(consoleErrors) = 0 /\ ~SessionFailed))

\* C4, amended: in every returned result, success is true iff the file exists,
\* no launch, page-creation or navigation failure occurred, and no
\* ObservedError had been emitted when the buffers were read at the report
\* step; the message is then "No runtime errors detected.".
C4_SuccessIffCleanAtReport ==
    Returned =>
        /\ settlement.value.success <=>
              /\ argv \in fs
              /\ ~SessionFailed
              /\ drainedAt # <<>>
              /\ \A i \in 1..Len(Observed) : ~IsObservedError(Observed[i])
        /\ settlement.value.success =>
              settlement.value = [success |-> TRUE, message |-> "No runtime errors detected."]

\* a run returned success although the page emitted events, none an ObservedError
C4_Witness ==
    /\ Returned
    /\ settlement.value.success
    /\ Len(Observed) = 2

(* ------------------------------- C5 ----------------------------------- *)

\* C5: an error-severity console message whose text contains "Failed to load
\* resource" is never in the console-error buffer nor in result.errors, and a
\* run that reports after only such messages returns success=true.
C5_BenignFiltered ==
    /\ \A i \in 1..Len(consoleErrors) : ~HasMarker(consoleErrors[i].message)
    /\ (Returned /\ "errors" \in DOMAIN settlement.value) =>
          \A i \in 1..Len(settlement.value.errors) :
              settlement.value.errors[i].type = "console.error"
                  => ~HasMarker(settlement.value.errors[i].message)
    /\ (Returned /\ ~SessionFailed /\ emitted # <<>>
          /\ \A i \in 1..Len(emitted) : BenignEvent(emitted[i]))
          => settlement.value.success

\* a run returned after the page logged a marker-carrying error inside a longer text
C5_Witness ==
    /\ Returned
    /\ ~SessionFailed
    /\ Len(Observed) > 0
    /\ \A i \in 1..Len(emitted) : BenignEvent(emitted[i])
    /\ \E i \in 1..Len(Observed) : Len(Observed[i].text) > 4

(* ------------------------------- C6 ----------------------------------- *)

\* the report step has run and its result has not been discarded
HasReport == drainedAt # <<>> /\ (pc = "close" \/ Returned)

\* the result built at the report step
ReportResult == IF pc = "close" THEN completion.value ELSE settlement.value

\* result.errors of the report step, empty when the field is absent
ReportErrors == IF "errors" \in DOMAIN ReportResult THEN ReportResult.errors ELSE <<>>

\* the entry an ObservedError event is reported as
EntryOf(ev) ==
    IF ev.chan = "pageerror"
    THEN [type |-> "pageerror", message |-> ev.err.message, stack |-> ev.err.stack]
    ELSE [type |-> "console.error", message |-> ev.text]

IsPageEvent(ev) == ev.chan = "pageerror"
IsConsoleErrorEvent(ev) == ev.chan = "console" /\ IsObservedError(ev)

\* the entries of a sequence of events, in the same order
RECURSIVE EntriesOf(_)
EntriesOf(evs) ==
    IF evs = <<>> THEN <<>> ELSE <<EntryOf(Head(evs))>> \o EntriesOf(Tail(evs))

IsPageEntry(en) == en.type = "pageerror"
IsConsoleEntry(en) == en.type = "console.error"

\* C6: at the report step result.errors is the page errors followed by the
\* console errors, each channel in its arrival order, whatever the order in
\* which events of the two channels arrived.
C6_PageThenConsole ==
    HasReport =>
        ReportErrors = EntriesOf(SelectSeq(Observed, IsPageEvent))
                       \o EntriesOf(SelectSeq(Observed, IsConsoleErrorEvent))

\* a report made after a console error arrived first and a page error second
C6_Witness ==
    /\ HasReport
    /\ Len(Observed) = 2
    /\ IsConsoleErrorEvent(Observed[1])
    /\ IsPageEvent(Observed[2])
    /\ Len(ReportErrors) = 2

(* ------------------------------- C7 ----------------------------------- *)

\* C7 as stated: result.errors is in chronological order of arrival, also
\* between a console error and a page error.
C7_Chronological ==
    HasReport => ReportErrors = EntriesOf(SelectSeq(Observed, IsObservedError))

\* C7, amended: two entries of the same channel appear in the order in which
\* their events arrived; between the channels the order is not chronological:
\* no console error appears before a page error.
C7_ChronologicalPerChannel ==
    HasReport =>
        /\ SelectSeq(ReportErrors, IsPageEntry) = EntriesOf(SelectSeq(Observed, IsPageEvent))
        /\ SelectSeq(ReportErrors, IsConsoleEntry)
              = EntriesOf(SelectSeq(Observed, IsConsoleErrorEvent))
        /\ \A i, j \in 1..Len(ReportErrors) :
              (IsConsoleEntry(ReportErrors[i]) /\ IsPageEntry(ReportErrors[j])) => j < i
        /\ \A i \in 1..Len(ReportErrors) :
              IsPageEntry(ReportErrors[i]) \/ IsConsoleEntry(ReportErrors[i])

\* a report holding two different entries of one channel
C7_Witness ==
    /\ HasReport
    /\ Len(ReportErrors) = 2
    /\ ReportErrors[1].type = ReportErrors[2].type
    /\ ReportErrors[1] # ReportErrors[2]

(* ------------------------------- C8 ----------------------------------- *)

\* the result carries a puppeteer_error entry with the failure's message and stack
CarriesFailure(result, error) ==
    /\ ~result.success
    /\ "errors" \in DOMAIN result
    /\ \E i \in 1..Len(result.errors) :
          result.errors[i] = [type |-> "puppeteer_error", message |-> error.message,
                              stack |-> error.stack]

\* C8 as stated: if the launch or the navigation fails, evaluateP5Sketch
\* returns (does not throw) a success=false result with a puppeteer_error
\* entry carrying the failure's message and stack.
C8_FailureReturned ==
    \A i \in 1..Len(failures) :
        (Settled /\ failures[i].at \in {"launch", "goto"})
            => (Returned /\ CarriesFailure(settlement.value, failures[i].error))

\* C8, amended: if the launch or the navigation fails, the catch block builds
\* a success=false result with a puppeteer_error entry carrying the failure's
\* message and stack; evaluateP5Sketch returns it, always after a launch
\* failure, and after a navigation failure unless browser.close() then
\* rejects, in which case evaluateP5Sketch rejects with the close failure.
C8_FailureReturnedUnlessCloseFails ==
    \A i \in 1..Len(failures) :
        failures[i].at \in {"launch", "goto"} =>
            /\ pc = "close" => CarriesFailure(completion.value, failures[i].error)
            /\ (Settled /\ ~Failed("close"))
                  => (Returned /\ CarriesFailure(settlement.value, failures[i].error))
            /\ (Settled /\ Failed("close"))
                  => /\ failures[i].at = "goto"
                     /\ settlement = [state |-> "rejected", reason |-> failures[Len(failures)].error]
            /\ failures[i].at = "launch" => pc # "close"

\* a navigation timeout was returned as a result
C8_Witness ==
    /\ Returned
    /\ Failed("goto")
    /\ settlement.value.errors[1].message = "Navigation timeout of 30000 ms exceeded"

(* ------------------------------- C9 ----------------------------------- *)

\* C9: the exit code is 0 exactly when the evaluation ran and returned
\* success=true; it is 1 when the argument is missing (no evaluation is
\* started), when the file is not found, when the result reports errors or a
\* launch/navigation failure, and when evaluateP5Sketch rejects.
C9_ExitCode ==
    /\ exit # <<>> <=> pc = "exited"
    /\ pc = "exited" =>
          /\ exit \in {<<0>>, <<1>>}
          /\ exit = <<0>> <=> (calls.evaluate = 1 /\ Returned /\ settlement.value.success)
          /\ (argv = Undefined \/ argv = "") => (calls.evaluate = 0 /\ exit = <<1>>)
          /\ (calls.evaluate = 1 /\ argv \notin fs) => exit = <<1>>
          /\ (Returned /\ "errors" \in DOMAIN settlement.value) => exit = <<1>>
          /\ settlement.state = "rejected" => exit = <<1>>

\* the process exited 1 after a result that reports runtime errors
C9_Witness ==
    /\ pc = "exited"
    /\ exit = <<1>>
    /\ Returned
    /\ settlement.value.message = "Runtime errors detected."

(* ------------------------------- C10 ---------------------------------- *)

\* C10: both listeners are registered when page.goto is called, so in every
\* run that reaches the report step each ObservedError the page emitted
\* between the start of navigation and the read of the buffers is in
\* result.errors; none is missed.
C10_NoneMissed ==
    /\ calls.goto > 0 => listeners = {"pageerror", "console"}
    /\ calls.goto = 0 => emitted = <<>>
    /\ HasReport =>
          /\ \A i \in 1..Len(Observed) :
                IsObservedError(Observed[i]) =>
                    \E j \in 1..Len(ReportErrors) : ReportErrors[j] = EntryOf(Observed[i])
          /\ Len(ReportErrors) = Len(SelectSeq(Observed, IsObservedError))

\* a report holding a console error emitted while page.goto was pending
C10_Witness ==
    /\ HasReport
    /\ Len(Observed) > 0
    /\ IsConsoleErrorEvent(Observed[1])
    /\ Len(stderr) > 0
    /\ Len(ReportErrors) = Len(Observed)

(* ------------------------------- C11 ---------------------------------- *)

\* the lines of a stream that start with the given words
LinesOf(stream, first) == { i \in 1..Len(stream) : stream[i][1] = first }

\* a JSON evaluation result is on standard output
JsonPrinted == LinesOf(stdout, "JSON") # {}

\* the top-level handler wrote its last-resort message
LastResortPrinted == LinesOf(stderr, "Unhandled error during evaluation:") # {}

\* the usage message was written
UsagePrinted == LinesOf(stderr, "Usage: node index.js <path/to/your/p5_sketch.html>") # {}

\* C11 as stated: every run of the command-line program ends in exactly one
\* of two outcomes, a JSON result on standard output (exit code 0 or 1) or a
\* last-resort error message with exit code 1, and no run prints a result
\* after the last-resort path was taken.
C11_TwoOutcomes ==
    /\ ~(JsonPrinted /\ LastResortPrinted)
    /\ pc = "exited" =>
          \/ JsonPrinted /\ ~LastResortPrinted /\ exit \in {<<0>>, <<1>>}
          \/ LastResortPrinted /\ ~JsonPrinted /\ exit = <<1>>

\* C11, amended: every run ends in exactly one of three outcomes: a JSON
\* result on standard output, printed once (exit code 0 or 1); the top-level
\* handler's last-resort message with exit code 1; or, when the argument is
\* missing, the usage message with exit code 1.  No run prints a result after
\* the last-resort path was taken.
C11_ThreeOutcomes ==
    /\ ~(JsonPrinted /\ LastResortPrinted)
    /\ pc = "exited" =>
          \/ /\ Cardinality(LinesOf(stdout, "JSON")) = 1
             /\ ~LastResortPrinted /\ ~UsagePrinted
             /\ exit \in {<<0>>, <<1>>}
          \/ /\ LastResortPrinted /\ ~JsonPrinted /\ ~UsagePrinted
             /\ exit = <<1>>
          \/ /\ UsagePrinted /\ ~JsonPrinted /\ ~LastResortPrinted
             /\ (argv = Undefined \/ argv = "")
             /\ exit = <<1>>

\* a run that ended on the last-resort path, after its progress line on standard output
C11_Witness ==
    /\ pc = "exited"
    /\ LastResortPrinted
    /\ stdout # <<>>

(* ------------------------------- C12 ---------------------------------- *)

\* this step is the page emitting an event
Emits == Len(emitted') = Len(emitted) + 1

\* the event emitted by this step
Emission == emitted'[Len(emitted')]

\* the event is a console message of severity warning or log
WarningOrLog(ev) == ev.chan = "console" /\ ev.type \in {"warning", "log"}

\* every emitted event is a warning or a log message, and there is one
OnlyWarningsAndLogs(evs) ==
    /\ evs # <<>>
    /\ \A i \in 1..Len(evs) : WarningOrLog(evs[i])

\* C12: a console message of severity warning or log leaves both error
\* buffers as they are, whatever its text, and a run that reports after only
\* such messages carries no errors and returns success=true.
C12_WarningsNotBuffered ==
    [][ /\ (Emits /\ WarningOrLog(Emission)) => UNCHANGED <<errors, consoleErrors>>
        /\ (OnlyWarningsAndLogs(emitted') /\ pc' = "close" /\ drainedAt' # <<>>)
              => completion'.value = [success |-> TRUE, message |-> "No runtime errors detected."]
        /\ (OnlyWarningsAndLogs(emitted') /\ settlement'.state = "fulfilled" /\ drainedAt' # <<>>)
              => settlement'.value = [success |-> TRUE, message |-> "No runtime errors detected."]
      ]_vars

\* a run returned after the page logged a warning and a log message with unfiltered texts
C12_Witness ==
    /\ Returned
    /\ Len(Observed) = 2
    /\ Observed[1].chan = "console" /\ Observed[1].type = "warning"
    /\ Observed[2].chan = "console" /\ Observed[2].type = "log"
    /\ ~HasMarker(Observed[1].text)
    /\ Len(stderr) = 2

(* ------------------------------- C13 ---------------------------------- *)

\* s is t with entries added at the end
IsPrefix(s, t) == Len(s) <= Len(t) /\ SubSeq(t, 1, Len(s)) = s

\* C13: buffering is append-only without deduplication: a page error appends
\* exactly one PageError, an unfiltered error-severity console message exactly
\* one ConsoleError, every other step leaves the entries already buffered in
\* place, and the report holds as many entries as ObservedErrors were emitted
\* before the buffers were read.
C13_AppendOnly ==
    [][ /\ IsPrefix(errors, errors')
        /\ IsPrefix(consoleErrors, consoleErrors')
        /\ Len(errors') + Len(consoleErrors')
              = Len(errors) + Len(consoleErrors)
                + (IF Emits /\ IsObservedError(Emission) THEN 1 ELSE 0)
        /\ (Emits /\ Emission.chan = "pageerror")
              => errors' = errors \o <<EntryOf(Emission)>>
        /\ (Emits /\ IsConsoleErrorEvent(Emission))
              => consoleErrors' = consoleErrors \o <<EntryOf(Emission)>>
        /\ (pc' = "close" /\ drainedAt' # <<>>)
              => (IF "errors" \in DOMAIN completion'.value
                  THEN Len(completion'.value.errors) ELSE 0)
                   = Len(SelectSeq(SubSeq(emitted', 1, drainedAt'[1]), IsObservedError))
      ]_vars

\* the report holds two equal entries, made by two identical events
C13_Witness ==
    /\ HasReport
    /\ Len(Observed) = 2
    /\ Observed[1] = Observed[2]
    /\ Len(ReportErrors) = 2
    /\ ReportErrors[1] = ReportErrors[2]

(* ------------------------------- C14 ---------------------------------- *)

\* the results the program holds: the one recorded while finally runs, the
\* one returned, and the ones printed
HeldResults ==
    (IF pc = "close" THEN {completion.value} ELSE {})
    \cup (IF Returned THEN {settlement.value} ELSE {})
    \cup { stdout[i][2] : i \in LinesOf(stdout, "JSON") }

\* C14: a result carries an errors field only when success is false, a
\* success=true result never carries one, and an errors field produced at the
\* report step is non-empty.
C14_ErrorsOnlyOnFailure ==
    /\ \A r \in HeldResults :
          /\ "errors" \in DOMAIN r => ~r.success
          /\ r.success => DOMAIN r = {"success", "message"}
    /\ (HasReport /\ "errors" \in DOMAIN ReportResult) => Len(ReportResult.errors) > 0
    /\ (HasReport /\ "errors" \notin DOMAIN ReportResult) => ReportResult.success

\* the printed result of a run that found exactly one error
C14_Witness ==
    /\ pc = "exited"
    /\ drainedAt # <<>>
    /\ \E r \in HeldResults : "errors" \in DOMAIN r /\ Len(r.errors) = 1

(* ------------------------------- C15 ---------------------------------- *)

\* the order of the suspension points
PcRank(p) ==
    CASE p = "main" -> 0
      [] p = "launch" -> 1
      [] p = "newPage" -> 2
      [] p = "goto" -> 3
      [] p = "delay" -> 4
      [] p = "close" -> 5
      [] p = "settled" -> 6
      [] p = "exited" -> 7

\* C15: the runner only moves forward: the browser is launched only once the
\* file check has passed, navigation starts only after launch and page
\* creation succeeded, the observation delay starts only when navigation has
\* returned, the buffers are read only when the delay completes, and no step
\* of the evaluation runs once it has ended.
C15_ForwardOnly ==
    [][ /\ PcRank(pc') >= PcRank(pc)
        /\ pc # "exited"
        /\ calls'.launch # calls.launch
              => (pc = "main" /\ argv \in fs /\ calls.launch = 0)
        /\ calls'.goto # calls.goto
              => /\ pc = "newPage"
                 /\ calls.launched = 1
                 /\ browser = "Browser"
                 /\ page' = "Page"
                 /\ failures' = <<>>
        /\ (timer = 0 /\ timer' # 0)
              => (pc = "goto" /\ failures' = <<>> /\ drainedAt' = <<>>)
        /\ drainedAt' # drainedAt
              => (pc = "delay" /\ timer = ObserveMs /\ timer' = 0 /\ drainedAt = <<>>)
        /\ calls'.close # calls.close
              => (pc \in {"launch", "newPage", "goto", "delay"} /\ pc' = "close")
        /\ settlement.state # "pending"
              => UNCHANGED <<browser, page, listeners, errors, consoleErrors, completion,
                             settlement, calls, failures, gotoOpts, timer, emitted, drainedAt>>
      ]_vars

\* a run went through every state in order and exited
C15_Witness ==
    /\ pc = "exited"
    /\ calls = [evaluate |-> 1, launch |-> 1, launched |-> 1, newPage |-> 1,
                goto |-> 1, close |-> 1]
    /\ failures = <<>>
    /\ drainedAt # <<>>
    /\ timer = 0

(* ------------------------------- C16 ---------------------------------- *)

\* C16: nothing is retried: launch, page creation and navigation are each
\* attempted at most once; the step in which one of them fails makes no call
\* but browser.close(), and after a failure no launch, page creation,
\* navigation or observation delay takes place and the buffers are not read.
C16_NoRetry ==
    [][ /\ calls'.launch <= 1
        /\ calls'.newPage <= 1
        /\ calls'.goto <= 1
        /\ calls'.close <= 1
        /\ failures' # failures
              => /\ [calls' EXCEPT !.close = 0] = [calls EXCEPT !.close = 0]
                 /\ pc' \in {"close", "settled"}
                 /\ timer' = 0
                 /\ drainedAt' = drainedAt
        /\ failures # <<>>
              => /\ calls' = calls
                 /\ timer = 0 /\ timer' = 0
                 /\ drainedAt' = drainedAt
                 /\ pc' \in {"close", "settled", "exited"}
      ]_vars

\* a launch failure was followed by nothing but the return of the failure result
C16_Witness ==
    /\ Settled
    /\ Failed("launch")
    /\ calls = [evaluate |-> 1, launch |-> 1, launched |-> 0, newPage |-> 0,
                goto |-> 0, close |-> 0]

(* ------------------------------- C17 ---------------------------------- *)

\* the result that the events emitted before the read call for
SnapshotResult(evs) ==
    IF SelectSeq(evs, IsObservedError) = <<>>
    THEN [success |-> TRUE, message |-> "No runtime errors detected."]
    ELSE [success |-> FALSE, message |-> "Runtime errors detected.",
          errors |-> EntriesOf(SelectSeq(evs, IsPageEvent))
                     \o EntriesOf(SelectSeq(evs, IsConsoleErrorEvent))]

\* C17: the two buffers are written only by the listener callbacks, each its
\* own; the runner reads them at most once, when the observation delay
\* completes (exactly once in a run that reports); callbacks that fire after
\* the read may still append, but the recorded and the returned result stay
\* the snapshot taken at the read.
C17_SnapshotAtRead ==
    [][ /\ errors' # errors => (Emits /\ Emission.chan = "pageerror")
        /\ consoleErrors' # consoleErrors => (Emits /\ Emission.chan = "console")
        /\ Emits => UNCHANGED <<pc, completion, settlement, drainedAt, calls, timer>>
        /\ drainedAt' # drainedAt
              => (drainedAt = <<>> /\ pc = "delay" /\ drainedAt' = <<Len(emitted)>>)
        /\ (pc' = "close" /\ drainedAt' # <<>>)
              => completion'.value = SnapshotResult(SubSeq(emitted', 1, drainedAt'[1]))
        /\ (settlement'.state = "fulfilled" /\ drainedAt' # <<>>)
              => settlement'.value = SnapshotResult(SubSeq(emitted', 1, drainedAt'[1]))
        /\ (pc' \in {"settled", "exited"} /\ calls'.launch = 1 /\ failures' = <<>>)
              => drainedAt' # <<>>
      ]_vars

\* two errors were buffered while close was pending, and success=true was returned
C17_Witness ==
    /\ Returned
    /\ drainedAt = <<0>>
    /\ Len(emitted) = 2
    /\ Len(errors) + Len(consoleErrors) = 2
    /\ settlement.value.success

(* ------------------------------- C18 ---------------------------------- *)

\* the result the catch block built, while finally runs or once returned
FailureResults ==
    IF ~SessionFailed THEN {}
    ELSE (IF pc = "close" THEN {completion.value} ELSE {})
         \cup (IF Returned THEN {settlement.value} ELSE {})

\* C18: when launch, page creation or navigation fails, result.errors holds
\* exactly one entry, the puppeteer_error of that failure; the page errors and
\* console errors buffered before the failure are not in the result.
C18_OnlyTheFailure ==
    \A r \in FailureResults :
        /\ ~r.success
        /\ Len(r.errors) = 1
        /\ r.errors[1] = [type |-> "puppeteer_error",
                          message |-> failures[1].error.message,
                          stack |-> failures[1].error.stack]
        /\ failures[1].at \in {"launch", "newPage", "goto"}

\* a navigation failed after a page error and a console error were buffered,
\* and the result was returned
C18_Witness ==
    /\ Returned
    /\ Failed("goto")
    /\ Len(errors) = 1
    /\ Len(consoleErrors) = 1
    /\ Len(settlement.value.errors) = 1

(* ------------------------------- C19 ---------------------------------- *)

\* C19: if browser.close() fails, the result the runner had computed is
\* discarded: evaluateP5Sketch rejects with the close failure, no JSON result
\* is printed, and the process takes the top-level handler and exits with
\* code 1, also when the evaluation had found no errors.
C19_CloseFailureDiscardsResult ==
    Failed("close") =>
        /\ settlement = [state |-> "rejected", reason |-> failures[Len(failures)].error]
        /\ failures[Len(failures)].at = "close"
        /\ completion = [kind |-> "none"]
        /\ ~JsonPrinted
        /\ pc \in {"settled", "exited"}
        /\ pc = "exited" => (exit = <<1>> /\ LastResortPrinted)

\* close failed after a report step that had found no errors, and the process exited
C19_Witness ==
    /\ pc = "exited"
    /\ Failed("close")
    /\ ~SessionFailed
    /\ drainedAt # <<>>
    /\ SelectSeq(Observed, IsObservedError) = <<>>
    /\ LinesOf(stdout, "Evaluation complete: No runtime errors detected.") # {}

====
